---- MODULE Spec2Model ----
(***************************************************************************)
(* Model of src/pycheckoutcli/pycheckoutcli.py: the CheckoutCli client of  *)
(* the Checkout PSP API.  Every method of the class is an operator that    *)
(* computes the method's outcome (a returned value or a raised exception)  *)
(* together with the transport and signing calls it made; every public     *)
(* method is an action that records that outcome.                          *)
(***************************************************************************)
EXTENDS Integers, Sequences, FiniteSets, TLC

VARIABLES self, call, ret, net, sig, trace

vars == <<self, call, ret, net, sig, trace>>

(***************************************************************************)
(* Python values.  Every value is tagged with its type, so that values of  *)
(* different types can be told apart (isinstance, type(x) is dict).        *)
(* An int carries its decimal digits: the sandbox payload holds numbers    *)
(* beyond 32 bits and no arithmetic is done on them.                       *)
(***************************************************************************)
None == [t |-> "None"]

PyStr(s) == [t |-> "str", s |-> s]

PyInt(digits) == [t |-> "int", n |-> digits]

PyFloat(digits) == [t |-> "float", x |-> digits]

PyDict(d) == [t |-> "dict", d |-> d]

PyList(l) == [t |-> "list", l |-> l]

Range(s) == {s[i] : i \in DOMAIN s}

(***************************************************************************)
(* Outcomes of a call: a returned value or a raised exception with its     *)
(* args, as Python's exception objects carry them.                         *)
(***************************************************************************)
Return(v) == [raised |-> FALSE, val |-> v]

Raise(type, arg) == [raised |-> TRUE, exc |-> type, args |-> <<arg>>]

NoClient == [t |-> "NoClient"]

NoCall == [op |-> "none"]

(***************************************************************************)
(* Bounds of the model.                                                    *)
(***************************************************************************)
MaxEdits == 2

MaxHeaders == 2

(***************************************************************************)
(* CheckoutCli.__init__ (lines 29-54).  The outcome is the constructed     *)
(* object or the exception that leaves no object behind.                   *)
(***************************************************************************)
BaseApiEndPoint == "https://api.checkout.fi"

Algorithm == "sha256"

AcceptedApiType == {"Payments", "PaymentDetails", "Refund", "ListProviders"}

init__(is_test_mode, merchant_id, secret_key) ==
    IF is_test_mode = 1
    THEN Return([is_test_mode |-> is_test_mode,
                 base_api_end_point |-> BaseApiEndPoint,
                 merchant_id |-> PyStr("375917"),
                 secret_key |-> PyStr("SAIPPUAKAUPPIAS")])
    ELSE IF merchant_id = None
    THEN Raise("KeyError", PyStr("Missing merchant id"))
    ELSE IF secret_key = None
    THEN Raise("KeyError", PyStr("Missing secret key"))
    ELSE Return([is_test_mode |-> is_test_mode,
                 base_api_end_point |-> BaseApiEndPoint,
                 merchant_id |-> merchant_id,
                 secret_key |-> secret_key])

(***************************************************************************)
(* validate_trans_id_data (lines 72-75) and get_post_url (lines 77-90).    *)
(***************************************************************************)
validate_trans_id_data(transaction_id) ==
    IF transaction_id = None \/ transaction_id = PyStr("")
    THEN Raise("ValueError", PyStr("Undefined transaction id"))
    ELSE Return(None)

get_post_url(me, api_type, transaction_id) ==
    IF api_type = "Payments"
    THEN Return(PyStr(me.base_api_end_point \o "/payments"))
    ELSE IF api_type = "PaymentDetails"
    THEN IF validate_trans_id_data(transaction_id).raised
         THEN validate_trans_id_data(transaction_id)
         ELSE Return(PyStr(me.base_api_end_point \o "/payments/" \o transaction_id.s))
    ELSE IF api_type = "Refund"
    THEN IF validate_trans_id_data(transaction_id).raised
         THEN validate_trans_id_data(transaction_id)
         ELSE Return(PyStr(me.base_api_end_point \o "/payments/" \o transaction_id.s
                           \o "/refund"))
    ELSE IF api_type = "ListProviders"
    THEN Return(PyStr(me.base_api_end_point \o "/merchants/payment-providers"))
    ELSE Return(None)

(***************************************************************************)
(* get_req_header_dict (lines 92-117).  A dict is its sequence of          *)
(* <<key, value>> pairs in insertion order.  time_stamp is bound only when *)
(* time_stamp_string is None (line 102), so building the dict with a       *)
(* caller-supplied time stamp reads an unbound local (line 111).  `now' is *)
(* what datetime.now().strftime returns.                                   *)
(***************************************************************************)
get_req_header_dict(me, api_type, method, request_id, trans_id, time_stamp_string, now) ==
    IF api_type \notin AcceptedApiType
    THEN Raise("ValueError", PyStr("Invalid value in api_type parameter"))
    ELSE IF api_type \in {"PaymentDetails", "Refund"} /\ trans_id = None
    THEN Raise("KeyError", PyStr("Missing data to trans_id parameter"))
    ELSE IF time_stamp_string # None
    THEN Raise("UnboundLocalError",
               PyStr("time_stamp"))
    ELSE LET header_dict == << <<"checkout-account", me.merchant_id>>,
                              <<"checkout-algorithm", PyStr(Algorithm)>>,
                              <<"checkout-method", PyStr(method)>>,
                              <<"checkout-nonce", request_id>>,
                              <<"checkout-timestamp", PyStr(now)>> >>
         IN  IF api_type \in {"PaymentDetails", "Refund"}
             THEN Return(Append(header_dict, <<"checkout-transaction-id", trans_id>>))
             ELSE Return(header_dict)

(***************************************************************************)
(* sorted() on header names.  Python orders str by code point, so upper    *)
(* case sorts before lower case; KeyOrder lists the header names of the     *)
(* API in that order.                                                      *)
(***************************************************************************)
KeyOrder == <<"Accept", "Content-Type", "checkout-account", "checkout-algorithm",
              "checkout-method", "checkout-nonce", "checkout-timestamp",
              "checkout-transaction-id", "signature">>

Keys(dict) == {dict[i][1] : i \in DOMAIN dict}

sorted(keys) == SelectSeq(KeyOrder, LAMBDA k : k \in keys)

RECURSIVE join(_, _)
join(sep, items) ==
    IF Len(items) = 0 THEN ""
    ELSE IF Len(items) = 1 THEN items[1]
    ELSE items[1] \o sep \o join(sep, Tail(items))

(***************************************************************************)
(* get_hash_sha256 (lines 119-167).  kwargs is the set of keyword names    *)
(* given and their values.  Line 133 binds header_dict to the sorted LIST  *)
(* of header names, so the first turn of the loop (line 140) indexes a     *)
(* list with a str.  With no header the loop is skipped, plain_text is     *)
(* built (lines 145-150) and line 153 reads sys, which the module never    *)
(* imports.  The outcome carries plain_text where the code has built it.   *)
(***************************************************************************)
get_hash_sha256(me, kwargs) ==
    IF kwargs.present = {}
    THEN Raise("KeyError", PyStr("Expect input parameters"))
    ELSE IF "headers" \notin kwargs.present
    THEN Raise("KeyError", PyStr("headers"))
    ELSE LET header_dict == sorted(Keys(kwargs.headers))
             body == IF "body" \in kwargs.present THEN kwargs.body ELSE None
         IN  IF Len(sorted(Range(header_dict))) > 0
             THEN Raise("TypeError",
                        PyStr("list indices must be integers or slices, not str"))
             ELSE LET items == IF body # None THEN <<body.s>> ELSE <<>>
                      plain_text == IF body = None
                                    THEN join("\n", items) \o "\n"
                                    ELSE join("\n", items)
                  IN  [raised |-> TRUE, exc |-> "NameError",
                       args |-> <<PyStr("name 'sys' is not defined")>>,
                       plain_text |-> plain_text]

(***************************************************************************)
(* send_request (lines 169-212).  **headers is always a dict, never None,  *)
(* so the default of lines 182-186 is never taken.  `response' is what the *)
(* transport answers: a status code and a content, or a raised             *)
(* ConnectionError.  The result is the outcome and the transport calls     *)
(* made.  A status code is an int, a content a str.                        *)
(***************************************************************************)
send_request(send_method, api_post_url, req_input, headers, response) ==
    IF api_post_url = None \/ api_post_url = PyStr("")
    THEN [ret |-> Raise("ValueError", PyStr("Need post URL data")), net |-> <<>>]
    ELSE LET request ==
                 IF send_method = "POST"
                 THEN [fn |-> "post", url |-> api_post_url, headers |-> headers,
                       data |-> req_input, params |-> None]
                 ELSE [fn |-> "get", url |-> api_post_url, headers |-> headers,
                       data |-> req_input, params |-> req_input]
         IN  IF response.raises
             THEN [ret |-> Raise("ConnectionError", None), net |-> <<request>>]
             ELSE IF response.status_code # PyInt("200") /\ response.status_code # PyInt("201")
             THEN [ret |-> Raise("Exception", response.content), net |-> <<request>>]
             ELSE [ret |-> Return(response), net |-> <<request>>]

(***************************************************************************)
(* The payload dicts.  A payload dict is PyDict(d) with d a function from  *)
(* its keys to Python values; `key in d' is key \in DOMAIN d.              *)
(***************************************************************************)
get(d, key) == IF key \in DOMAIN d THEN d[key] ELSE None

(***************************************************************************)
(* get_create_payment_keys (lines 214-217) and                             *)
(* validate_create_payment_input (lines 219-230): the first key of the     *)
(* list, in the list's order, that is absent or None.                      *)
(***************************************************************************)
get_create_payment_keys ==
    <<"stamp", "reference", "amount", "currency", "language", "items", "customer",
      "deliveryAddress", "invoicingAddress", "redirectUrls", "callbackUrls">>

validate_create_payment_input(kwargs) ==
    IF DOMAIN kwargs = {}
    THEN Raise("KeyError", PyStr("Expect input parameters"))
    ELSE LET keyList == get_create_payment_keys
             bad == {i \in DOMAIN keyList : get(kwargs, keyList[i]) = None}
         IN  IF bad = {} THEN Return(None)
             ELSE LET i == CHOOSE j \in bad : \A k \in bad : j <= k
                  IN  Raise("ValueError", PyStr("Missing " \o keyList[i] \o " parameter"))

(***************************************************************************)
(* validate_data_dict (lines 232-249).  key_dict is the sequence of        *)
(* <<key, mandatory>> pairs in the order the dict literal lists them.  On  *)
(* a dict, `key not in data_dict' asks for the key; on a list it asks for  *)
(* an element equal to the key, and data_dict[key] then indexes the list   *)
(* with a str.  Other operand types are not drawn.                         *)
(***************************************************************************)
validate_key(key, data_dict) ==
    IF data_dict.t = "dict"
    THEN IF key \notin DOMAIN data_dict.d
         THEN Raise("KeyError", PyStr("Missing mandatory key: " \o key))
         ELSE IF data_dict.d[key] = None
         THEN Raise("KeyError", PyStr("Invalid value in " \o key \o " parameter"))
         ELSE Return(None)
    ELSE IF data_dict.t = "list"
    THEN IF PyStr(key) \notin Range(data_dict.l)
         THEN Raise("KeyError", PyStr("Missing mandatory key: " \o key))
         ELSE Raise("TypeError", PyStr("list indices must be integers or slices, not str"))
    ELSE Raise("TypeError", PyStr("argument is not iterable"))

validate_data_dict(key_dict, data_dict) ==
    IF data_dict = None
    THEN Raise("KeyError", PyStr("Missing value in data_dict parameter"))
    ELSE LET bad == {i \in DOMAIN key_dict :
                        key_dict[i][2] /\ validate_key(key_dict[i][1], data_dict).raised}
         IN  IF bad = {} THEN Return(None)
             ELSE LET i == CHOOSE j \in bad : \A k \in bad : j <= k
                  IN  validate_key(key_dict[i][1], data_dict)

(***************************************************************************)
(* validate_customer_key_value_in_create_payment (lines 251-265).          *)
(***************************************************************************)
validate_customer_key_value_in_create_payment(customer_dict) ==
    IF customer_dict = None
    THEN Raise("KeyError", PyStr("Missing customer_dict parameter"))
    ELSE validate_data_dict(<< <<"firstName", TRUE>>, <<"lastName", TRUE>>,
                               <<"email", TRUE>>, <<"phone", FALSE>>,
                               <<"vatId", FALSE>> >>, customer_dict)

(***************************************************************************)
(* validate_language_code2 (lines 267-282).                                *)
(***************************************************************************)
validate_language_code2(language_code) ==
    IF language_code = None
    THEN Raise("KeyError", PyStr("Missing language_code parameter"))
    ELSE IF language_code.t # "str"
    THEN Raise("ValueError", PyStr("Expect string data type for language parameter"))
    ELSE IF Len(language_code.s) > 2
    THEN Raise("ValueError",
               PyStr("Invalid language code value length. Expected 2 letters of language code"))
    ELSE IF language_code.s # "FI" /\ language_code.s # "SV" /\ language_code.s # "EN"
    THEN Raise("ValueError", PyStr("Invalid value. Support only FI, SV and EN"))
    ELSE Return(None)

(***************************************************************************)
(* validate_address_value_in_create_payment (lines 284-309).  Line 299     *)
(* reads the name `value', which is bound neither in the function nor in   *)
(* the module: every call that gets past validate_data_dict raises         *)
(* NameError there, and lines 302-309 are never run.                       *)
(***************************************************************************)
validate_address_value_in_create_payment(data_dict) ==
    IF data_dict = None
    THEN Raise("KeyError", PyStr("Missing data_dict parameter"))
    ELSE LET r == validate_data_dict(<< <<"streetAddress", TRUE>>, <<"postalCode", TRUE>>,
                                        <<"city", TRUE>>, <<"county", FALSE>>,
                                        <<"country", TRUE>> >>, data_dict)
         IN  IF r.raised THEN r
             ELSE Raise("NameError", PyStr("name 'value' is not defined"))

(***************************************************************************)
(* validate_int_value (lines 311-316) and                                  *)
(* validate_item_data_in_create_payment (lines 318-344).                   *)
(***************************************************************************)
validate_int_value(key, value) ==
    IF value.t # "int"
    THEN Raise("ValueError", PyStr("Expect int value in " \o key \o " parameter"))
    ELSE Return(None)

validate_item_data_in_create_payment(data_dict) ==
    IF data_dict = None
    THEN Raise("KeyError", PyStr("Missing data_dict parameter"))
    ELSE LET r == validate_data_dict(<< <<"unitPrice", TRUE>>, <<"units", TRUE>>,
                                        <<"vatPercentage", TRUE>>, <<"productCode", TRUE>>,
                                        <<"deliveryDate", TRUE>>, <<"description", FALSE>>,
                                        <<"category", FALSE>>, <<"stamp", FALSE>>,
                                        <<"reference", FALSE>>, <<"merchant", FALSE>>,
                                        <<"commission", FALSE>> >>, data_dict)
         IN  IF r.raised THEN r
             ELSE IF validate_int_value("unitPrice", data_dict.d["unitPrice"]).raised
             THEN validate_int_value("unitPrice", data_dict.d["unitPrice"])
             ELSE IF validate_int_value("units", data_dict.d["units"]).raised
             THEN validate_int_value("units", data_dict.d["units"])
             ELSE validate_int_value("vatPercentage", data_dict.d["vatPercentage"])

(***************************************************************************)
(* validate_callback_urls_data (lines 346-359).                            *)
(***************************************************************************)
validate_callback_urls_data(data_dict) ==
    IF data_dict = None
    THEN Raise("KeyError", PyStr("Missing data_dict parameter"))
    ELSE validate_data_dict(<< <<"success", TRUE>>, <<"cancel", TRUE>> >>, data_dict)

(***************************************************************************)
(* get_test_req_create_payment_data (lines 361-416); the city is written   *)
(* in ASCII.                                                               *)
(***************************************************************************)
get_test_req_create_payment_data ==
    PyDict([
        stamp |-> PyInt("29858472952"),
        reference |-> PyInt("9187445"),
        amount |-> PyInt("1590"),
        currency |-> PyStr("EUR"),
        language |-> PyStr("FI"),
        items |-> PyList(<<
            PyDict([
                unitPrice |-> PyInt("1590"),
                units |-> PyInt("1"),
                vatPercentage |-> PyInt("24"),
                productCode |-> PyStr("#927502759"),
                deliveryDate |-> PyStr("2018-03-07"),
                description |-> PyStr("Cat ladder"),
                category |-> PyStr("shoe"),
                merchant |-> PyInt("375917"),
                stamp |-> PyInt("29858472952"),
                reference |-> PyInt("9187445"),
                commission |-> PyDict([merchant |-> PyStr("string"),
                                       amount |-> PyInt("0")])
            ]) >>),
        customer |-> PyDict([
            email |-> PyStr("john.doe@example.org"),
            firstName |-> PyStr("John"),
            lastName |-> PyStr("Doe"),
            phone |-> PyInt("358501234567"),
            vatId |-> PyStr("FI02454583")
        ]),
        deliveryAddress |-> PyDict([
            streetAddress |-> PyStr("Fake street 123"),
            postalCode |-> PyStr("00100"),
            city |-> PyStr("Lulea"),
            county |-> PyStr("Norrbotten"),
            country |-> PyStr("Sweden")
        ]),
        invoicingAddress |-> PyDict([
            streetAddress |-> PyStr("Fake street 123"),
            postalCode |-> PyStr("00100"),
            city |-> PyStr("Lulea"),
            county |-> PyStr("Norrbotten"),
            country |-> PyStr("Sweden")
        ]),
        redirectUrls |-> PyDict([
            success |-> PyStr("https://ecom.example.org/success"),
            cancel |-> PyStr("https://ecom.example.org/cancel")
        ]),
        callbackUrls |-> PyDict([
            success |-> PyStr("https://ecom.example.org/success"),
            cancel |-> PyStr("https://ecom.example.org/cancel")
        ])
    ])

(***************************************************************************)
(* create_payment (lines 418-477).  The body is a sequence of statements;  *)
(* each step below is one of them, in the order of StepOrder, acting on    *)
(* the locals `env'.  A step that raises ends the call: nothing in the     *)
(* method catches an exception.  env.sig and env.net collect the calls of  *)
(* get_hash_sha256 and of the transport the method has made.               *)
(***************************************************************************)
\* The statements with the transport call placed ahead of the validation.
StepOrderSendFirst ==
    <<"request_id", "input_data_dict", "get_post_url", "send_request",
      "validate_create_payment_input", "currency", "language", "customer",
      "invoicingAddress", "deliveryAddress", "items", "redirectUrls", "callbackUrls",
      "get_req_header_dict", "get_hash_sha256", "signature">>

StepOrder ==
    <<"request_id", "input_data_dict", "validate_create_payment_input", "currency",
      "language", "customer", "invoicingAddress", "deliveryAddress", "items",
      "redirectUrls", "callbackUrls", "get_post_url", "get_req_header_dict",
      "get_hash_sha256", "signature", "send_request">>

Ok(env) == [out |-> Return(None), env |-> env]

From(r, env) == [out |-> IF r.raised THEN r ELSE Return(None), env |-> env]

Step(name, me, env, now, response) ==
    CASE name = "request_id" ->
           IF env.request_id = None
           THEN From(Raise("KeyError",
                     PyStr("Missing unique request id value in request_id parameter")), env)
           ELSE Ok(env)
      [] name = "input_data_dict" ->
           IF me.is_test_mode = 1
           THEN IF env.input_data_dict = None
                THEN Ok([env EXCEPT !.input_data_dict = get_test_req_create_payment_data])
                ELSE Ok(env)
           ELSE IF env.input_data_dict = None
                THEN From(Raise("KeyError", PyStr("Missing input request parameters")), env)
                ELSE Ok(env)
      [] name = "validate_create_payment_input" ->
           From(validate_create_payment_input(env.input_data_dict.d), env)
      [] name = "currency" ->
           IF env.input_data_dict.d["currency"] # PyStr("EUR")
           THEN From(Raise("ValueError",
                     PyStr("Invalid currency value. Support only EUR.")), env)
           ELSE Ok(env)
      [] name = "language" ->
           From(validate_language_code2(env.input_data_dict.d["language"]), env)
      [] name = "customer" ->
           IF env.input_data_dict.d["customer"].t = "dict"
           THEN Ok(env)
           ELSE From(Raise("ValueError", PyStr("Invalid data type for customer key")), env)
      [] name = "invoicingAddress" ->
           From(validate_address_value_in_create_payment(
                    env.input_data_dict.d["invoicingAddress"]), env)
      [] name = "deliveryAddress" ->
           From(validate_address_value_in_create_payment(
                    env.input_data_dict.d["deliveryAddress"]), env)
      [] name = "items" ->
           From(validate_item_data_in_create_payment(env.input_data_dict.d["items"]), env)
      [] name = "redirectUrls" ->
           From(validate_callback_urls_data(env.input_data_dict.d["redirectUrls"]), env)
      [] name = "callbackUrls" ->
           From(validate_callback_urls_data(env.input_data_dict.d["callbackUrls"]), env)
      [] name = "get_post_url" ->
           LET r == get_post_url(me, "Payments", None)
           IN  From(r, IF r.raised THEN env ELSE [env EXCEPT !.post_url = r.val])
      [] name = "get_req_header_dict" ->
           LET r == get_req_header_dict(me, "Payments", "POST", env.request_id, None,
                                        env.time_stamp_string, now)
           IN  From(r, IF r.raised THEN env ELSE [env EXCEPT !.headers_dict = r.val])
      [] name = "get_hash_sha256" ->
           LET hmac_dict == [present |-> {"headers", "body"},
                             headers |-> env.headers_dict, body |-> None]
               r == get_hash_sha256(me, hmac_dict)
               called == [env EXCEPT !.sig = Append(@, hmac_dict)]
           IN  From(r, IF r.raised THEN called ELSE [called EXCEPT !.signature = r.val])
      [] name = "signature" ->
           Ok([env EXCEPT !.headers_dict =
                   @ \o << <<"signature", env.signature>>,
                           <<"Content-Type", PyStr("application/json; charset=utf-8")>>,
                           <<"Accept", PyStr("application/json")>> >>])
      [] name = "send_request" ->
           LET r == send_request("POST", env.post_url, env.input_data_dict, <<>>, response)
           IN  From(r.ret, [env EXCEPT !.net = @ \o r.net,
                                       !.res_obj = IF r.ret.raised THEN None ELSE r.ret.val])

RECURSIVE RunSteps(_, _, _, _, _, _)
RunSteps(steps, me, env, now, response, done) ==
    IF steps = <<>>
    THEN [ret |-> Return(env.res_obj), net |-> env.net, sig |-> env.sig, trace |-> done]
    ELSE LET r == Step(Head(steps), me, env, now, response)
         IN  IF r.out.raised
             THEN [ret |-> r.out, net |-> r.env.net, sig |-> r.env.sig,
                   trace |-> Append(done, Head(steps))]
             ELSE RunSteps(Tail(steps), me, r.env, now, response, Append(done, Head(steps)))

create_payment(me, request_id, input_data_dict, time_stamp_string, now, response) ==
    RunSteps(StepOrder, me,
             [request_id |-> request_id, input_data_dict |-> input_data_dict,
              time_stamp_string |-> time_stamp_string, post_url |-> None,
              headers_dict |-> <<>>, signature |-> None, res_obj |-> None,
              net |-> <<>>, sig |-> <<>>],
             now, response, <<>>)

(***************************************************************************)
(* The inputs the callers draw.  ValidPayload is a payload that meets      *)
(* every rule of the payment schema: the sandbox payload with two-letter   *)
(* country codes.  The other payloads are ValidPayload with at most        *)
(* MaxEdits of the Edits applied, each of which removes or replaces one    *)
(* key of the payload or of one of its nested dicts.                       *)
(***************************************************************************)
Absent == [t |-> "absent"]

Put(d, key, v) == [k \in DOMAIN d \cup {key} |-> IF k = key THEN v ELSE d[k]]

Del(d, key) == [k \in DOMAIN d \ {key} |-> d[k]]

Set(d, key, v) == IF v = Absent THEN Del(d, key) ELSE Put(d, key, v)

Apply(p, e) ==
    IF Len(e.path) = 1
    THEN PyDict(Set(p.d, e.path[1], e.val))
    ELSE IF e.path[1] \in DOMAIN p.d /\ p.d[e.path[1]].t = "dict"
    THEN PyDict(Put(p.d, e.path[1], PyDict(Set(p.d[e.path[1]].d, e.path[2], e.val))))
    ELSE p

ValidPayload ==
    Apply(Apply(get_test_req_create_payment_data,
                [path |-> <<"invoicingAddress", "country">>, val |-> PyStr("SE")]),
          [path |-> <<"deliveryAddress", "country">>, val |-> PyStr("SE")])

ValidItem == ValidPayload.d["items"].l[1]

Edits ==
    {[path |-> <<k>>, val |-> Absent] :
        k \in {"stamp", "currency", "items", "customer", "invoicingAddress",
               "callbackUrls"}}
    \cup {[path |-> <<"currency">>, val |-> PyStr("USD")]}
    \cup {[path |-> <<"language">>, val |-> v] :
            v \in {PyStr("DE"), PyStr("FIN"), PyInt("5")}}
    \cup {[path |-> <<"customer">>, val |-> PyStr("John Doe")],
          [path |-> <<"customer", "email">>, val |-> Absent],
          [path |-> <<"customer", "firstName">>, val |-> Absent]}
    \cup {[path |-> <<"invoicingAddress", "country">>, val |-> PyStr("Sweden")],
          [path |-> <<"invoicingAddress", "city">>, val |-> Absent]}
    \cup {[path |-> <<"deliveryAddress", "country">>, val |-> PyStr("Sweden")]}
    \cup {[path |-> <<"items">>,
           val |-> PyList(<<PyDict(Put(ValidItem.d, "unitPrice", PyFloat("15.90")))>>)],
          [path |-> <<"items">>, val |-> ValidItem]}
    \cup {[path |-> <<"redirectUrls", "success">>, val |-> Absent],
          [path |-> <<"callbackUrls", "cancel">>, val |-> Absent]}

RECURSIVE Edited(_)
Edited(n) ==
    IF n = 0 THEN {ValidPayload}
    ELSE LET prev == Edited(n - 1)
         IN  prev \cup {Apply(p, e) : p \in prev, e \in Edits}

Payloads == Edited(MaxEdits) \cup {get_test_req_create_payment_data}

Modes == {0, 1}

MerchantIds == {None, PyStr(""), PyStr("M1")}

SecretKeys == {None, PyStr(""), PyStr("S1")}

RequestIds == {None, PyStr("R1")}

TransactionIds == {None, PyStr(""), PyStr("T1")}

TimeStamps == {None, PyStr("2018-03-07T101500")}

Clock == {"2018-03-07T101500", "2018-03-07T101501"}

ApiTypes == AcceptedApiType \cup {"Payment"}

Methods == {"POST", "GET"}

Urls == {None, PyStr(""), PyStr("https://api.checkout.fi/payments")}

Responses ==
    {[raises |-> FALSE, status_code |-> PyInt(c), content |-> PyStr(b)] :
        c \in {"200", "201", "400", "500"}, b \in {"{}", "{error:bad request}"}}
    \cup {[raises |-> TRUE, status_code |-> None, content |-> None]}

PaymentResponses ==
    {r \in Responses : r.raises \/ (r.content = PyStr("{error:bad request}")
                                     /\ r.status_code \in {PyInt("201"), PyInt("400")})}

HeaderNames == {"checkout-account", "checkout-method", "checkout-nonce"}

HeaderValues == {PyStr("a"), PyStr("b")}

RECURSIVE HeaderDicts(_)
HeaderDicts(n) ==
    IF n = 0 THEN {<<>>}
    ELSE LET prev == HeaderDicts(n - 1)
         IN  prev \cup {Append(h, <<k, v>>) :
                          h \in {g \in prev : Len(g) = n - 1},
                          k \in HeaderNames, v \in HeaderValues}

Kwargs ==
    {[present |-> ks, headers |-> IF "headers" \in ks THEN h ELSE <<>>,
      body |-> IF "body" \in ks THEN b ELSE None] :
        ks \in SUBSET {"headers", "body"},
        h \in {g \in HeaderDicts(MaxHeaders) : Cardinality(Keys(g)) = Len(g)},
        b \in {None, PyStr("{}")}}

Init ==
    /\ self = NoClient
    /\ call = NoCall
    /\ ret = Return(None)
    /\ net = <<>>
    /\ sig = <<>>
    /\ trace = <<>>

(***************************************************************************)
(* The caller constructs one client and then calls one of its methods.     *)
(* No method changes the client, so a second call would start from the     *)
(* same client again.                                                      *)
(***************************************************************************)
Ready == self # NoClient /\ call.op = "__init__"

Construct ==
    /\ self = NoClient /\ call = NoCall
    /\ \E is_test_mode \in Modes, merchant_id \in MerchantIds, secret_key \in SecretKeys :
          LET r == init__(is_test_mode, merchant_id, secret_key)
          IN  /\ call' = [op |-> "__init__", is_test_mode |-> is_test_mode,
                          merchant_id |-> merchant_id, secret_key |-> secret_key]
              /\ self' = IF r.raised THEN NoClient ELSE r.val
              /\ ret' = IF r.raised THEN r ELSE Return(None)
    /\ UNCHANGED <<net, sig, trace>>

GetPostUrl ==
    /\ Ready
    /\ \E api_type \in ApiTypes, transaction_id \in TransactionIds :
          /\ call' = [op |-> "get_post_url", api_type |-> api_type,
                      transaction_id |-> transaction_id]
          /\ ret' = get_post_url(self, api_type, transaction_id)
    /\ UNCHANGED <<self, net, sig, trace>>

GetReqHeaderDict ==
    /\ Ready
    /\ \E api_type \in ApiTypes, method \in Methods, request_id \in RequestIds,
          trans_id \in TransactionIds, time_stamp_string \in TimeStamps, now \in Clock :
          /\ call' = [op |-> "get_req_header_dict", api_type |-> api_type,
                      method |-> method, request_id |-> request_id,
                      trans_id |-> trans_id, time_stamp_string |-> time_stamp_string]
          /\ ret' = get_req_header_dict(self, api_type, method, request_id, trans_id,
                                        time_stamp_string, now)
    /\ UNCHANGED <<self, net, sig, trace>>

GetHashSha256 ==
    /\ Ready
    /\ \E kwargs \in Kwargs :
          /\ call' = [op |-> "get_hash_sha256", kwargs |-> kwargs]
          /\ ret' = get_hash_sha256(self, kwargs)
          /\ sig' = <<kwargs>>
    /\ UNCHANGED <<self, net, trace>>

SendRequest ==
    /\ Ready
    /\ \E send_method \in Methods, api_post_url \in Urls,
          req_input \in {None, ValidPayload},
          headers \in {<<>>, << <<"Accept", PyStr("application/json")>> >>},
          response \in Responses :
          LET r == send_request(send_method, api_post_url, req_input, headers, response)
          IN  /\ call' = [op |-> "send_request", send_method |-> send_method,
                          api_post_url |-> api_post_url, req_input |-> req_input,
                          headers |-> headers, response |-> response]
              /\ ret' = r.ret
              /\ net' = r.net
    /\ UNCHANGED <<self, sig, trace>>

ValidateCustomer ==
    /\ Ready
    /\ \E p \in Payloads :
          LET customer_dict == get(p.d, "customer")
          IN  /\ customer_dict.t \in {"None", "dict"}
              /\ call' = [op |-> "validate_customer_key_value_in_create_payment",
                          customer_dict |-> customer_dict]
              /\ ret' = validate_customer_key_value_in_create_payment(customer_dict)
    /\ UNCHANGED <<self, net, sig, trace>>

CreatePayment ==
    /\ Ready
    /\ \E request_id \in RequestIds, input_data_dict \in Payloads \cup {None},
          time_stamp_string \in TimeStamps, now \in Clock,
          response \in PaymentResponses :
          LET r == create_payment(self, request_id, input_data_dict, time_stamp_string,
                                  now, response)
          IN  /\ call' = [op |-> "create_payment", request_id |-> request_id,
                          input_data_dict |-> input_data_dict,
                          time_stamp_string |-> time_stamp_string]
              /\ ret' = r.ret
              /\ net' = r.net
              /\ sig' = r.sig
              /\ trace' = r.trace
    /\ UNCHANGED self

Next ==
    \/ Construct
    \/ GetPostUrl
    \/ GetReqHeaderDict
    \/ GetHashSha256
    \/ SendRequest
    \/ ValidateCustomer
    \/ CreatePayment

Spec == Init /\ [][Next]_vars

(***************************************************************************)
(* The rules of the payment schema, stage by stage, as the specification   *)
(* states them.  A stage after presence judges a key only when the key is  *)
(* there.                                                                  *)
(***************************************************************************)
Has(v, keys) == v.t = "dict" /\ \A k \in keys : k \in DOMAIN v.d /\ v.d[k] # None

PresenceOk(d) == \A i \in DOMAIN get_create_payment_keys :
                    get(d, get_create_payment_keys[i]) # None

CurrencyOk(v) == v = PyStr("EUR")

LanguageOk(v) == v.t = "str" /\ Len(v.s) = 2 /\ v.s \in {"FI", "SV", "EN"}

CustomerOk(v) == Has(v, {"firstName", "lastName", "email"})

AddressOk(v) ==
    /\ Has(v, {"streetAddress", "postalCode", "city", "country"})
    /\ v.d["country"].t = "str"
    /\ Len(v.d["country"].s) <= 2

ItemOk(v) ==
    /\ Has(v, {"unitPrice", "units", "vatPercentage", "productCode", "deliveryDate"})
    /\ \A k \in {"unitPrice", "units", "vatPercentage"} : v.d[k].t = "int"

ItemsOk(v) == v.t = "list" /\ Len(v.l) > 0 /\ \A i \in DOMAIN v.l : ItemOk(v.l[i])

UrlsOk(v) == Has(v, {"success", "cancel"})

Stages == <<"presence", "currency", "language", "customer", "addresses", "items", "urls">>

StageOk(stage, d) ==
    LET ok(key, rule) == get(d, key) = None \/ rule
    IN  CASE stage = "presence" -> PresenceOk(d)
          [] stage = "currency" -> ok("currency", CurrencyOk(get(d, "currency")))
          [] stage = "language" -> ok("language", LanguageOk(get(d, "language")))
          [] stage = "customer" -> ok("customer", CustomerOk(get(d, "customer")))
          [] stage = "addresses" ->
                /\ ok("deliveryAddress", AddressOk(get(d, "deliveryAddress")))
                /\ ok("invoicingAddress", AddressOk(get(d, "invoicingAddress")))
          [] stage = "items" -> ok("items", ItemsOk(get(d, "items")))
          [] stage = "urls" ->
                /\ ok("redirectUrls", UrlsOk(get(d, "redirectUrls")))
                /\ ok("callbackUrls", UrlsOk(get(d, "callbackUrls")))

Violated(d) == {i \in DOMAIN Stages : ~StageOk(Stages[i], d)}

SchemaValid(p) == p.t = "dict" /\ Violated(p.d) = {}

StageSteps(stage) ==
    CASE stage = "presence" -> {"validate_create_payment_input"}
      [] stage = "currency" -> {"currency"}
      [] stage = "language" -> {"language"}
      [] stage = "customer" -> {"customer"}
      [] stage = "addresses" -> {"invoicingAddress", "deliveryAddress"}
      [] stage = "items" -> {"items"}
      [] stage = "urls" -> {"redirectUrls", "callbackUrls"}

ValidationSteps == UNION {StageSteps(Stages[i]) : i \in DOMAIN Stages}

IsCreate == call.op = "create_payment"

\* The create_payment call in progress was given a request id and a payload.
Given == IsCreate /\ call.request_id # None /\ call.input_data_dict # None

\* The payload create_payment works on: the one given, or the sandbox one.
PayloadUsed ==
    IF call.input_data_dict = None THEN get_test_req_create_payment_data
    ELSE call.input_data_dict

Position(step) == CHOOSE i \in DOMAIN trace : trace[i] = step

CheckoutNames == {"checkout-account", "checkout-algorithm", "checkout-method",
                  "checkout-nonce", "checkout-timestamp"}

CanonicalMessage(headers, body) ==
    LET names == sorted(Keys(headers))
        value(k) == headers[CHOOSE i \in DOMAIN headers : headers[i][1] = k][2]
        lines == [i \in DOMAIN names |-> names[i] \o ":" \o value(names[i]).s]
    IN  IF body = None
        THEN join("\n", lines) \o "\n"
        ELSE join("\n", Append(lines, body.s))

HmacSha256Hex(secret, message) == PyStr("hmac-sha256[" \o secret \o "][" \o message \o "]")

C3_CanonicalDigest ==
    (/\ call.op = "get_hash_sha256"
     /\ "headers" \in call.kwargs.present
     /\ call.kwargs.headers # <<>>)
    => ret = Return(HmacSha256Hex(self.secret_key.s,
                                  CanonicalMessage(call.kwargs.headers,
                                                   IF "body" \in call.kwargs.present
                                                   THEN call.kwargs.body ELSE None)))

(***************************************************************************)
(* C4.  No run of create_payment invokes the transport unless every        *)
(* validation stage has been passed by the payload, and a run that ends in *)
(* an error of a validation stage has made no transport call.              *)
(***************************************************************************)
C4_NoSendBeforeValidation ==
    IsCreate =>
        /\ Len(net) > 0 =>
              /\ \A i \in DOMAIN net : SchemaValid(net[i].data)
              /\ \A s \in ValidationSteps :
                    s \in Range(trace) /\ Position(s) < Position("send_request")
        /\ (ret.raised /\ trace[Len(trace)] \in ValidationSteps) => Len(net) = 0

C4_Witness ==
    /\ Given
    /\ ~SchemaValid(call.input_data_dict)
    /\ ret.raised
    /\ trace[Len(trace)] = "currency"
    /\ Len(net) = 0

(***************************************************************************)
(* C5.  Validation runs the stages presence, currency, language, customer, *)
(* addresses, items, URL pairs in this order and stops at the first one    *)
(* that fails: for a payload that violates two or more stages the error    *)
(* is raised by the earliest violated stage and no later stage is run.     *)
(***************************************************************************)
C5_FirstViolatedStageReported ==
    (Given /\ Cardinality(Violated(call.input_data_dict.d)) >= 2) =>
        LET first == CHOOSE i \in Violated(call.input_data_dict.d) :
                        \A j \in Violated(call.input_data_dict.d) : i <= j
        IN  /\ ret.raised
            /\ trace[Len(trace)] \in StageSteps(Stages[first])
            /\ \A j \in DOMAIN Stages :
                  j > first => StageSteps(Stages[j]) \cap Range(trace) = {}

(***************************************************************************)
(* C6.  A payload that passes presence, currency and language and whose    *)
(* customer record lacks firstName, lastName or email makes create_payment *)
(* fail with the missing-mandatory-key error naming that field, raised at  *)
(* the customer stage before any address or item check.                    *)
(***************************************************************************)
C6_MissingCustomerField ==
    (/\ Given
     /\ \A s \in {"presence", "currency", "language"} : StageOk(s, call.input_data_dict.d)
     /\ call.input_data_dict.d["customer"].t = "dict"
     /\ {"firstName", "lastName", "email"} \ DOMAIN call.input_data_dict.d["customer"].d # {})
    => /\ ret.raised
       /\ ret.exc = "KeyError"
       /\ \E f \in {"firstName", "lastName", "email"} \ DOMAIN call.input_data_dict.d["customer"].d :
             ret.args = <<PyStr("Missing mandatory key: " \o f)>>
       /\ trace[Len(trace)] = "customer"

(***************************************************************************)
(* C7.  Constructing in live mode fails whenever the account id or the     *)
(* secret key is absent or empty, so a live client has both non-empty;     *)
(* constructing in test mode always succeeds with the sandbox account id   *)
(* and secret, whatever the caller supplies.                               *)
(***************************************************************************)
C7_Credentials ==
    /\ (call.op = "__init__" /\ call.is_test_mode # 1
        /\ (call.merchant_id \in {None, PyStr("")} \/ call.secret_key \in {None, PyStr("")}))
       => (ret.raised /\ self = NoClient)
    /\ (self # NoClient /\ self.is_test_mode # 1)
       => (self.merchant_id \notin {None, PyStr("")} /\ self.secret_key \notin {None, PyStr("")})
    /\ (call.op = "__init__" /\ call.is_test_mode = 1)
       => (/\ ~ret.raised
           /\ self # NoClient
           /\ self.merchant_id = PyStr("375917")
           /\ self.secret_key = PyStr("SAIPPUAKAUPPIAS"))

(***************************************************************************)
(* C8.  Building the URL or the header set for PaymentDetails or Refund    *)
(* fails with the missing-parameter error whenever the transaction id is   *)
(* absent or empty; building for Payments or ListProviders never fails for *)
(* lack of a transaction id.                                               *)
(***************************************************************************)
TransactionIdErrors ==
    {Raise("ValueError", PyStr("Undefined transaction id")),
     Raise("KeyError", PyStr("Missing data to trans_id parameter"))}

C8_TransactionIdRequired ==
    /\ (call.op = "get_post_url" /\ call.api_type \in {"PaymentDetails", "Refund"}
        /\ call.transaction_id \in {None, PyStr("")})
       => ret \in TransactionIdErrors
    /\ (call.op = "get_req_header_dict" /\ call.api_type \in {"PaymentDetails", "Refund"}
        /\ call.trans_id \in {None, PyStr("")})
       => ret \in TransactionIdErrors
    /\ (call.op \in {"get_post_url", "get_req_header_dict"}
        /\ call.api_type \in {"Payments", "ListProviders"})
       => ret \notin TransactionIdErrors

(***************************************************************************)
(* C9.  A call of send_request with a post URL invokes the transport       *)
(* exactly once; a response status outside {200, 201} ends the call in an  *)
(* error that carries the status code and the raw response body, and a     *)
(* status of 200 or 201 returns the response.                              *)
(***************************************************************************)
C9_OneCallApiError ==
    (/\ call.op = "send_request"
     /\ call.api_post_url \notin {None, PyStr("")}
     /\ ~call.response.raises)
    => /\ Len(net) = 1
       /\ call.response.status_code \in {PyInt("200"), PyInt("201")}
             => ret = Return(call.response)
       /\ call.response.status_code \notin {PyInt("200"), PyInt("201")}
             => /\ ret.raised
                /\ call.response.status_code \in Range(ret.args)
                /\ call.response.content \in Range(ret.args)

(***************************************************************************)
(* C10.  In test mode, create_payment with a request id and no payload     *)
(* substitutes the sandbox payload, which passes every validation stage,   *)
(* and the call reaches the transport with that payload as body.           *)
(***************************************************************************)
C10_SandboxPayloadIsSent ==
    (/\ IsCreate
     /\ self.is_test_mode = 1
     /\ call.request_id # None
     /\ call.input_data_dict = None)
    => /\ ValidationSteps \subseteq Range(trace)
       /\ ~(ret.raised /\ trace[Len(trace)] \in ValidationSteps)
       /\ Len(net) = 1
       /\ net[1].data = get_test_req_create_payment_data
====
